---- MODULE Spec2Model ----
(***************************************************************************)
(* A model of the tarball fetcher (src/src/lib.rs): fetch_tarball and the  *)
(* functions it calls, run by several invocations against one shared       *)
(* content-addressable store directory.                                    *)
(*                                                                         *)
(* Strings and paths are TLA+ strings.  Byte buffers are sequences of      *)
(* small naturals.  The external crates (ssri, libdeflater, tar, reqwest)  *)
(* are modelled by their observable behaviour on a small universe of       *)
(* inputs: a 16-bit digest stands for sha512/sha1, a one-byte body plus    *)
(* the 4-byte ISIZE footer stands for a gzip stream, and a table stands    *)
(* for the tar parser.                                                     *)
(***************************************************************************)
EXTENDS Integers, Sequences, FiniteSets, TLC

(***************************************************************************)
(* Bounds of the model.                                                    *)
(***************************************************************************)
\* number of invocations of fetch_tarball, which may run concurrently
NumSlots == 2

Slots == 1..NumSlots

(***************************************************************************)
(* Program constants.                                                      *)
(***************************************************************************)
STORE_DIR == "pnpm-store"

(***************************************************************************)
(* Encodings: hex and base64, as ssri produces them.                       *)
(***************************************************************************)
HexDigits == "0123456789abcdef"

HexChar(n) == SubSeq(HexDigits, n + 1, n + 1)

\* hex::encode of the two digest bytes
HexEncode(d) ==
  HexChar(d \div 4096) \o HexChar((d \div 256) % 16)
    \o HexChar((d \div 16) % 16) \o HexChar(d % 16)

B64Alphabet == "ABCDEFGHIJKLMNOPQRSTUVWXYZabcdefghijklmnopqrstuvwxyz0123456789+/"

B64Char(v) == SubSeq(B64Alphabet, v + 1, v + 1)

\* base64 (standard, padded) of the two digest bytes: 3 characters and "="
Base64Encode(d) ==
  B64Char(d \div 1024) \o B64Char((d \div 16) % 64)
    \o B64Char((d % 16) * 4) \o "="

IsB64Char(c) == \E v \in 0..63 : B64Char(v) = c

B64Index(c) == CHOOSE v \in 0..63 : B64Char(v) = c

CharAt(s, n) == SubSeq(s, n, n)

\* base64-decode a 4-character group and hex-encode the bytes it holds:
\* two bytes when the group ends in "=", three bytes otherwise.
\* ok = FALSE when the text is not valid base64.
Base64DecodeToHex(s) ==
  IF Len(s) /= 4 \/ \E n \in 1..3 : ~IsB64Char(CharAt(s, n))
  THEN [ok |-> FALSE, hex |-> ""]
  ELSE IF CharAt(s, 4) = "="
  THEN LET v == B64Index(CharAt(s, 1)) * 1024 + B64Index(CharAt(s, 2)) * 16
                  + (B64Index(CharAt(s, 3)) \div 4)
       IN [ok |-> TRUE, hex |-> HexEncode(v)]
  ELSE IF ~IsB64Char(CharAt(s, 4))
  THEN [ok |-> FALSE, hex |-> ""]
  ELSE LET hi == B64Index(CharAt(s, 1)) * 64 + B64Index(CharAt(s, 2))
           lo == B64Index(CharAt(s, 3)) * 64 + B64Index(CharAt(s, 4))
       IN [ok |-> TRUE,
           hex |-> HexChar(hi \div 256) \o HexChar((hi \div 16) % 16)
                     \o HexChar(hi % 16) \o HexChar(lo \div 256)
                     \o HexChar((lo \div 16) % 16) \o HexChar(lo % 16)]

(***************************************************************************)
(* Digests.  A positional fold of the bytes stands for the hash: it is     *)
(* injective on the buffers of the model (bytes at most 5, length at most  *)
(* 5), as the real hashes are assumed to be on real buffers.  A digest is  *)
(* two bytes wide (the real sha512 is 64 bytes wide).                      *)
(***************************************************************************)
RECURSIVE DigestFold(_)
DigestFold(bytes) ==
  IF bytes = <<>> THEN 1
  ELSE (DigestFold(SubSeq(bytes, 1, Len(bytes) - 1)) * 7
          + bytes[Len(bytes)] + 1) % 65536

Sha512Digest(bytes) == DigestFold(bytes)

Sha1Digest(bytes) == (DigestFold(bytes) * 3 + 1) % 65536

(***************************************************************************)
(* ssri: the integrity string of a buffer, and parsing it back.            *)
(***************************************************************************)
\* IntegrityOpts::new().algorithm(Sha512).chain(data).result().to_string()
Sha512Integrity(bytes) == "sha512-" \o Base64Encode(Sha512Digest(bytes))

\* IntegrityOpts::new().algorithm(Sha512).chain(data).result().to_hex().1
Sha512Hex(bytes) == HexEncode(Sha512Digest(bytes))

\* IntegrityOpts::new().algorithm(Sha1).chain(data).result().to_hex().1
Sha1Hex(bytes) == HexEncode(Sha1Digest(bytes))

StartsWith(s, prefix) ==
  Len(s) >= Len(prefix) /\ SubSeq(s, 1, Len(prefix)) = prefix

\* position of the first "-" of s, 0 when there is none
DashPos(s) ==
  IF \E n \in 1..Len(s) : CharAt(s, n) = "-"
  THEN CHOOSE n \in 1..Len(s) :
         CharAt(s, n) = "-" /\ \A m \in 1..(n - 1) : CharAt(s, m) /= "-"
  ELSE 0

\* integrity.parse::<Integrity>() followed by to_hex().1: the algorithm tag
\* before the first "-" must be a known one, the text after it is taken as
\* the base64 digest and decoded to hex.
IntegrityToHex(integrity) ==
  LET dash == DashPos(integrity)
      tag  == SubSeq(integrity, 1, dash - 1)
      rest == SubSeq(integrity, dash + 1, Len(integrity))
  IN IF dash = 0 \/ tag \notin {"sha1", "sha256", "sha384", "sha512"}
     THEN [ok |-> FALSE, hex |-> ""]
     ELSE Base64DecodeToHex(rest)

(***************************************************************************)
(* ASCII case.                                                             *)
(***************************************************************************)
LowerLetters == "abcdefghijklmnopqrstuvwxyz"

UpperLetters == "ABCDEFGHIJKLMNOPQRSTUVWXYZ"

\* str::to_uppercase on ASCII text
RECURSIVE ToUpper(_)
ToUpper(s) ==
  IF s = "" THEN ""
  ELSE LET c == CharAt(s, 1)
           u == IF \E n \in 1..26 : CharAt(LowerLetters, n) = c
                THEN CharAt(UpperLetters, CHOOSE n \in 1..26 : CharAt(LowerLetters, n) = c)
                ELSE c
       IN u \o ToUpper(SubSeq(s, 2, Len(s)))

(***************************************************************************)
(* verify_checksum and calc_hash.                                          *)
(***************************************************************************)
calc_hash(data, algorithm) ==
  IF algorithm = "Sha1"
  THEN "sha1-" \o Sha1Hex(data)
  ELSE Sha512Integrity(data)

\* verify_checksum comparing without regard to case (eq_ignore_ascii_case)
verify_checksum_IgnoreCase(response, expeced_checksum) ==
  LET algorithm == IF StartsWith(expeced_checksum, "sha1") THEN "Sha1" ELSE "Sha512"
      calculated_checksum == calc_hash(response, algorithm)
  IN IF ToUpper(calculated_checksum) = ToUpper(expeced_checksum)
     THEN [verified |-> TRUE, checksum |-> "None"]
     ELSE [verified |-> FALSE, checksum |-> calculated_checksum]

\* verify_checksum comparing only as many characters as the tag and its dash
verify_checksum_TagOnly(response, expeced_checksum) ==
  LET algorithm == IF StartsWith(expeced_checksum, "sha1") THEN "Sha1" ELSE "Sha512"
      calculated_checksum == calc_hash(response, algorithm)
      n == DashPos(calculated_checksum)
  IN IF SubSeq(calculated_checksum, 1, n) = SubSeq(expeced_checksum, 1, n)
     THEN [verified |-> TRUE, checksum |-> "None"]
     ELSE [verified |-> FALSE, checksum |-> calculated_checksum]

verify_checksum(response, expeced_checksum) ==
  LET algorithm == IF StartsWith(expeced_checksum, "sha1") THEN "Sha1" ELSE "Sha512"
      calculated_checksum == calc_hash(response, algorithm)
  IN IF calculated_checksum = expeced_checksum
     THEN [verified |-> TRUE, checksum |-> "None"]
     ELSE [verified |-> FALSE, checksum |-> calculated_checksum]

(***************************************************************************)
(* Store paths.                                                            *)
(***************************************************************************)
FileTypes == {"Exec", "NonExec", "Index"}

\* content_path_from_hex with the directory taken from three characters
content_path_from_hex_Shard3(file_type, hex) ==
  LET extension == CASE file_type = "Exec"    -> "-exec"
                     [] file_type = "NonExec" -> ""
                     [] file_type = "Index"   -> "-index.json"
  IN SubSeq(hex, 1, 3) \o "/" \o SubSeq(hex, 4, Len(hex)) \o extension

\* p.push(a); p.push(b) on an empty PathBuf with relative pieces: a
\* separator and b are appended, also when b is empty
content_path_from_hex(file_type, hex) ==
  LET extension == CASE file_type = "Exec"    -> "-exec"
                     [] file_type = "NonExec" -> ""
                     [] file_type = "Index"   -> "-index.json"
  IN SubSeq(hex, 1, 2) \o "/" \o SubSeq(hex, 3, Len(hex)) \o extension

\* PathBuf::from(a).join(b) for a relative b
JoinPath(a, b) == a \o "/" \o b

\* position of the last "/" of p, 0 when there is none
LastSlash(p) ==
  IF \E n \in 1..Len(p) : CharAt(p, n) = "/"
  THEN CHOOSE n \in 1..Len(p) :
         CharAt(p, n) = "/" /\ \A m \in (n + 1)..Len(p) : CharAt(p, m) /= "/"
  ELSE 0

\* Path::parent
ParentDir(p) == SubSeq(p, 1, LastSlash(p) - 1)

(***************************************************************************)
(* Tar archives.  The decompressed bytes of an archive are stood for by    *)
(* its number in the table below; Archive::entries() yields the items of   *)
(* the table in order, an item with ok = FALSE being an entry whose        *)
(* header or body cannot be read.                                          *)
(***************************************************************************)
Entry(path, type, body) == [ok |-> TRUE, path |-> path, type |-> type, body |-> body]

BadEntry == [ok |-> FALSE, path |-> "", type |-> "file", body |-> <<>>]

Archives ==
  << \* 1: two regular files
     << Entry("package/a.txt", "file", <<1, 2>>),
        Entry("package/b.txt", "file", <<3>>) >>,
     \* 2: a directory, and two files with equal contents (also in archive 1)
     << Entry("pkg/lib/", "dir", <<>>),
        Entry("pkg/lib/c.txt", "file", <<3>>),
        Entry("pkg/d.txt", "file", <<3>>) >>,
     \* 3: one good entry followed by a truncated one
     << Entry("package/a.txt", "file", <<1, 2>>),
        BadEntry >>,
     \* 4: two entries with the same path below different roots
     << Entry("root-seg/lib/index.js", "file", <<4>>),
        Entry("other/lib/index.js", "file", <<5>>) >>,
     \* 5: a symbolic link, and a file outside any root directory
     << Entry("package/link", "symlink", <<>>),
        Entry("README", "file", <<2>>) >> >>

ArchiveIds == DOMAIN Archives

\* the number of bytes of the archive (one header block per entry and its body)
RECURSIVE TarSize(_)
TarSize(entries) ==
  IF entries = <<>> THEN 0
  ELSE 1 + Len(entries[1].body) + TarSize(Tail(entries))

(***************************************************************************)
(* Gzip.  A stream is its compressed body followed by the 4-byte           *)
(* little-endian ISIZE footer; the body of the model is one byte, the      *)
(* number of the archive it inflates to.                                   *)
(***************************************************************************)
U32ToLe(n) ==
  << n % 256, (n \div 256) % 256, (n \div 65536) % 256, (n \div 16777216) % 256 >>

\* u32::from_le_bytes
U32FromLe(b) == b[1] + b[2] * 256 + b[3] * 65536 + b[4] * 16777216

Gzip(id) == <<id>> \o U32ToLe(TarSize(Archives[id]))

\* libdeflater's gzip_decompress into a buffer of out_len bytes
gzip_decompress(gz_data, out_len) ==
  IF Len(gz_data) /= 5 \/ gz_data[1] \notin ArchiveIds
  THEN [kind |-> "Err", error |-> "BadData", data |-> 0]
  ELSE LET actual == TarSize(Archives[gz_data[1]])
       IN IF out_len < actual
          THEN [kind |-> "Err", error |-> "InsufficientSpace", data |-> 0]
          ELSE IF U32FromLe(SubSeq(gz_data, Len(gz_data) - 3, Len(gz_data))) /= actual
          THEN [kind |-> "Err", error |-> "BadData", data |-> 0]
          ELSE [kind |-> "Ok", error |-> "", data |-> gz_data[1]]

\* gz_data.len() - 4 on an input shorter than 4 bytes either panics on the
\* overflow check or wraps, and then the slice gz_data[isize_start..] panics:
\* both builds end in a panic.
decompress_gzip(gz_data) ==
  IF Len(gz_data) < 4
  THEN [kind |-> "Panic", error |-> "", data |-> 0]
  ELSE LET isize_start == Len(gz_data) - 4
           isize == U32FromLe(SubSeq(gz_data, isize_start + 1, Len(gz_data)))
       IN gzip_decompress(gz_data, isize)

(***************************************************************************)
(* The inputs of the model: what each URL serves, and the integrity        *)
(* strings a caller passes with it.                                        *)
(***************************************************************************)
Server ==
  << Gzip(1), Gzip(2), Gzip(3),
     \* archive 1 with a footer that lies about the size
     <<1>> \o U32ToLe(2),
     \* shorter than the footer
     <<1, 0, 0>> >>

Urls == DOMAIN Server

\* the string with its character at position n replaced by c
ReplaceChar(s, n, c) == SubSeq(s, 1, n - 1) \o c \o SubSeq(s, n + 1, Len(s))

\* a digest string of the same shape with one character flipped
FlipChar(s, n) == ReplaceChar(s, n, IF CharAt(s, n) = "A" THEN "B" ELSE "A")

\* the right sha512 string, the same with one character flipped and, for
\* the first URL, the right sha1 string
IntegrityChoices(u) ==
  { Sha512Integrity(Server[u]), FlipChar(Sha512Integrity(Server[u]), 8) }
    \cup (IF u = 1 THEN {"sha1-" \o Sha1Hex(Server[u])} ELSE {})

(***************************************************************************)
(* Paths used by extract_tarball.                                          *)
(***************************************************************************)
\* position of the first "/" of p, 0 when there is none
FirstSlash(p) ==
  IF \E n \in 1..Len(p) : CharAt(p, n) = "/"
  THEN CHOOSE n \in 1..Len(p) :
         CharAt(p, n) = "/" /\ \A m \in 1..(n - 1) : CharAt(p, m) /= "/"
  ELSE 0

\* Path::components() drops a trailing separator
TrimTrailingSlash(p) ==
  IF Len(p) > 1 /\ CharAt(p, Len(p)) = "/" THEN SubSeq(p, 1, Len(p) - 1) ELSE p

\* the pieces of p between its separators, empty ones included
RECURSIVE SplitPath(_)
SplitPath(p) ==
  IF FirstSlash(p) = 0 THEN << p >>
  ELSE << SubSeq(p, 1, FirstSlash(p) - 1) >>
         \o SplitPath(SubSeq(p, FirstSlash(p) + 1, Len(p)))

\* Path::components: the root "/" of an absolute path, a leading "." of a
\* relative one, and the non-empty pieces other than "."; repeated and
\* trailing separators disappear
Components(p) ==
  LET parts == SplitPath(p)
      IsNormal(x) == x /= "" /\ x /= "."
  IN (IF StartsWith(p, "/") THEN << "/" >> ELSE <<>>)
       \o (IF parts[1] = "." THEN << "." >> ELSE <<>>)
       \o SelectSeq(parts, IsNormal)

\* collect::<PathBuf>() of components that follow the first: each is pushed
\* after a separator
RECURSIVE CollectPath(_)
CollectPath(components) ==
  IF components = <<>> THEN ""
  ELSE IF Len(components) = 1 THEN components[1]
  ELSE components[1] \o "/" \o CollectPath(Tail(components))

\* cleaned_entry_path without skip(1): the whole path is collected
cleaned_entry_path_NoSkip(entry_path) == CollectPath(Components(entry_path))

\* entry_path.components().skip(1).collect::<PathBuf>() as a string
cleaned_entry_path(entry_path) ==
  LET components == Components(entry_path)
  IN IF components = <<>> THEN "" ELSE CollectPath(Tail(components))

\* file_path without the join with STORE_DIR
file_path_NoStoreDir(buffer) == content_path_from_hex("NonExec", Sha512Hex(buffer))

\* PathBuf::from(STORE_DIR).join(content_path_from_hex(NonExec, hex of buffer))
file_path(buffer) ==
  JoinPath(STORE_DIR, content_path_from_hex("NonExec", Sha512Hex(buffer)))

\* PathBuf::from(STORE_DIR).join(index_location), index_location being
\* content_path_from_hex(Index, parsed.to_hex().1)
index_path(integrity) ==
  JoinPath(STORE_DIR, content_path_from_hex("Index", IntegrityToHex(integrity).hex))

\* serde_json::to_string of the map: an object with one member per key,
\* in no particular order
ToJson(map) == { <<key, map[key]>> : key \in DOMAIN map }

\* the file after `bytes` are written at offset 0 of a file holding `old`
WriteAt0(old, bytes) == bytes \o SubSeq(old, Len(bytes) + 1, Len(old))

(***************************************************************************)
(* State.  Each invocation of fetch_tarball has its arguments and the      *)
(* local variables of fetch_tarball and extract_tarball; the store         *)
(* directory is shared.                                                    *)
(***************************************************************************)
VARIABLES
  pc,             \* where each invocation is
  url,            \* fetch_tarball: the url argument
  integrity,      \* fetch_tarball: the integrity argument
  response,       \* fetch_tarball: the fetched bytes
  index_location, \* extract_tarball: the path of the index file in the store
  entries,        \* extract_tarball: what node_archive.entries() has yet to yield
  cur,            \* extract_tarball: buffer, cleaned_entry_path and file_path
                  \*   of the entry being processed
  cas_file_map,   \* extract_tarball: the index built so far
  outcome,        \* what the invocation ended with
  cancelled,      \* the caller dropped the invocation's future
  log,            \* history: the stages the invocation ran, with their results
  writes,         \* history: the store paths the invocation created or wrote
  prior,          \* history: the invocations that had returned an index for the
                  \*   same archive and index location when this one began extracting
  store,          \* the content objects of the store directory: path -> bytes
  index_files,    \* the index files of the store directory: path -> documents
  dirs,           \* the directories of the store directory
  CLIENT,         \* the static OnceLock<Client>: 0 when empty, else the instance it holds
  client,         \* _fetch_tarball: the instance get_or_init returned to the invocation
  constructed,    \* history: the number of Client instances built so far
  call,           \* a direct call of one of the public functions: its arguments
  ret             \* what the direct call returned

vars == << pc, url, integrity, response, index_location, entries, cur, cas_file_map,
           outcome, cancelled, log, writes, prior, store, index_files, dirs,
           CLIENT, client, constructed, call, ret >>

args_vars == << url, integrity, response >>
extract_vars == << index_location, entries, cur, cas_file_map >>
fs_vars == << store, index_files, dirs >>
client_vars == << CLIENT, client, constructed >>
fn_vars == << call, ret >>
pipeline_vars == << pc, args_vars, extract_vars, outcome, cancelled, log, writes, prior,
                    fs_vars, client_vars >>

EmptyMap == [key \in {} |-> ""]

NoEntry == [buffer |-> <<>>, cleaned_entry_path |-> "", file_path |-> "", type |-> ""]

Stages == << "fetch", "verify", "decompress", "extract", "persist" >>

Logged(i, stage, result) ==
  log' = [log EXCEPT ![i] = Append(@, [stage |-> stage, result |-> result])]

Finish(i, result) ==
  /\ pc' = [pc EXCEPT ![i] = "done"]
  /\ outcome' = [outcome EXCEPT ![i] = result]

\* no direct call
NoCall == [fn |-> "none"]

\* the direct call has not returned
NotReturned == [kind |-> "none"]

InitPipeline ==
  /\ pc = [i \in Slots |-> "idle"]
  /\ url = [i \in Slots |-> 1]
  /\ integrity = [i \in Slots |-> ""]
  /\ response = [i \in Slots |-> <<>>]
  /\ index_location = [i \in Slots |-> ""]
  /\ entries = [i \in Slots |-> <<>>]
  /\ cur = [i \in Slots |-> NoEntry]
  /\ cas_file_map = [i \in Slots |-> EmptyMap]
  /\ outcome = [i \in Slots |-> "pending"]
  /\ cancelled = [i \in Slots |-> FALSE]
  /\ log = [i \in Slots |-> <<>>]
  /\ writes = [i \in Slots |-> {}]
  /\ prior = [i \in Slots |-> {}]
  /\ store = [p \in {} |-> <<>>]
  /\ index_files = [p \in {} |-> <<>>]
  /\ dirs = {}
  /\ CLIENT = 0
  /\ client = [i \in Slots |-> 0]
  /\ constructed = 0

Init ==
  /\ InitPipeline
  /\ call = NoCall
  /\ ret = NotReturned

(***************************************************************************)
(* fetch_tarball                                                           *)
(***************************************************************************)
\* a caller invokes fetch_tarball(url, integrity)
Call(i) ==
  /\ pc[i] = "idle"
  /\ \E u \in Urls : \E s \in IntegrityChoices(u) :
       /\ url' = [url EXCEPT ![i] = u]
       /\ integrity' = [integrity EXCEPT ![i] = s]
  /\ pc' = [pc EXCEPT ![i] = "client"]
  /\ UNCHANGED << response, extract_vars, outcome, cancelled, log, writes, prior,
                  fs_vars >>
  /\ UNCHANGED << client_vars, fn_vars >>

\* GetOrInit without the once-only cell: every first poll builds a client
\* and stores it
GetOrInit_AlwaysBuild(i) ==
  /\ pc[i] = "client"
  /\ constructed' = constructed + 1
  /\ CLIENT' = constructed + 1
  /\ client' = [client EXCEPT ![i] = constructed + 1]
  /\ pc' = [pc EXCEPT ![i] = "fetch"]
  /\ UNCHANGED << args_vars, extract_vars, outcome, cancelled, log, writes, prior,
                  fs_vars, fn_vars >>

\* CLIENT.get_or_init(|| Client::builder().use_rustls_tls().build().unwrap()):
\* the closure runs only when the cell is empty, and at most one caller runs
\* it; every caller gets a reference to the instance the cell holds
GetOrInit(i) ==
  /\ pc[i] = "client"
  /\ IF CLIENT = 0
     THEN /\ constructed' = constructed + 1
          /\ CLIENT' = constructed + 1
          /\ client' = [client EXCEPT ![i] = constructed + 1]
     ELSE /\ client' = [client EXCEPT ![i] = CLIENT]
          /\ UNCHANGED << CLIENT, constructed >>
  /\ pc' = [pc EXCEPT ![i] = "fetch"]
  /\ UNCHANGED << args_vars, extract_vars, outcome, cancelled, log, writes, prior,
                  fs_vars, fn_vars >>

\* the closure's build() fails on an empty cell: unwrap panics and the cell
\* stays empty
GetOrInitFail(i) ==
  /\ pc[i] = "client"
  /\ CLIENT = 0
  /\ Finish(i, "panic")
  /\ Logged(i, "fetch", "network")
  /\ UNCHANGED << args_vars, extract_vars, cancelled, writes, prior, fs_vars,
                  client_vars, fn_vars >>

\* _fetch_tarball(&url).await returns the body
FetchOk(i) ==
  /\ pc[i] = "fetch"
  /\ response' = [response EXCEPT ![i] = Server[url[i]]]
  /\ pc' = [pc EXCEPT ![i] = "verify"]
  /\ Logged(i, "fetch", "ok")
  /\ UNCHANGED << url, integrity, extract_vars, outcome, cancelled, writes, prior,
                  fs_vars >>
  /\ UNCHANGED << client_vars, fn_vars >>

\* _fetch_tarball(&url).await returns an error: unwrap panics
FetchFail(i) ==
  /\ pc[i] = "fetch"
  /\ Finish(i, "panic")
  /\ Logged(i, "fetch", "network")
  /\ UNCHANGED << args_vars, extract_vars, cancelled, writes, prior, fs_vars >>
  /\ UNCHANGED << client_vars, fn_vars >>

\* Verify without the early return: the blocking task is spawned whatever
\* verify_checksum says
Verify_NoEarlyReturn(i) ==
  /\ pc[i] = "verify"
  /\ pc' = [pc EXCEPT ![i] = "decompress"]
  /\ Logged(i, "verify",
            IF verify_checksum(response[i], integrity[i]).verified THEN "ok" ELSE "integrity")
  /\ UNCHANGED << args_vars, extract_vars, outcome, cancelled, writes, prior, fs_vars >>
  /\ UNCHANGED << client_vars, fn_vars >>

\* verify_checksum, the early return on a mismatch, and spawn_blocking
Verify(i) ==
  /\ pc[i] = "verify"
  /\ IF verify_checksum(response[i], integrity[i]).verified
     THEN /\ pc' = [pc EXCEPT ![i] = "decompress"]
          /\ Logged(i, "verify", "ok")
          /\ UNCHANGED outcome
     ELSE /\ Finish(i, "GenericFailure")
          /\ Logged(i, "verify", "integrity")
  /\ UNCHANGED << args_vars, extract_vars, cancelled, writes, prior, fs_vars >>
  /\ UNCHANGED << client_vars, fn_vars >>

\* the invocations that have returned an index for the archive bytes and the
\* index location invocation i is about to extract with
ReturnedSame(i, location) ==
  { j \in Slots \ {i} :
      /\ pc[j] = "done" /\ outcome[j] = "Ok"
      /\ decompress_gzip(response[j]) = decompress_gzip(response[i])
      /\ index_location[j] = location }

\* Decompress with the error of decompress_gzip replaced by an empty
\* buffer (unwrap_or_default) instead of a panic
Decompress_IgnoreError(i) ==
  /\ pc[i] = "decompress"
  /\ LET decompressed_response == decompress_gzip(response[i])
     IN /\ pc' = [pc EXCEPT ![i] = "extract"]
        /\ Logged(i, "decompress",
                  IF decompressed_response.kind = "Ok" THEN "ok" ELSE "decompress")
        /\ index_location' = [index_location EXCEPT ![i] = index_path(integrity[i])]
        /\ entries' = [entries EXCEPT ![i] =
                         IF decompressed_response.kind = "Ok"
                         THEN Archives[decompressed_response.data] ELSE <<>>]
        /\ cas_file_map' = [cas_file_map EXCEPT ![i] = EmptyMap]
        /\ prior' = [prior EXCEPT ![i] = ReturnedSame(i, index_path(integrity[i]))]
  /\ UNCHANGED << args_vars, cur, outcome, cancelled, writes, fs_vars >>
  /\ UNCHANGED << client_vars, fn_vars >>

\* in the blocking task: decompress_gzip(&response).unwrap(),
\* integrity.parse().unwrap(), the index location, and the start of
\* extract_tarball (the archive, the empty map, the join with STORE_DIR)
Decompress(i) ==
  /\ pc[i] = "decompress"
  /\ LET decompressed_response == decompress_gzip(response[i])
         parsed == IntegrityToHex(integrity[i])
     IN IF decompressed_response.kind /= "Ok"
        THEN /\ Finish(i, "panic")
             /\ Logged(i, "decompress", "decompress")
             /\ UNCHANGED << extract_vars, prior >>
        ELSE IF ~parsed.ok
        THEN /\ Finish(i, "panic")
             /\ log' = [log EXCEPT ![i] =
                          @ \o << [stage |-> "decompress", result |-> "ok"],
                                  [stage |-> "extract", result |-> "parse"] >>]
             /\ UNCHANGED << extract_vars, prior >>
        ELSE /\ pc' = [pc EXCEPT ![i] = "extract"]
             /\ Logged(i, "decompress", "ok")
             /\ index_location' = [index_location EXCEPT ![i] = index_path(integrity[i])]
             /\ entries' = [entries EXCEPT ![i] = Archives[decompressed_response.data]]
             /\ cas_file_map' = [cas_file_map EXCEPT ![i] = EmptyMap]
             /\ prior' = [prior EXCEPT ![i] = ReturnedSame(i, index_path(integrity[i]))]
             /\ UNCHANGED << cur, outcome >>
  /\ UNCHANGED << args_vars, cancelled, writes, fs_vars >>
  /\ UNCHANGED << client_vars, fn_vars >>

(***************************************************************************)
(* extract_tarball                                                         *)
(***************************************************************************)
\* std::fs::create_dir_all(parent_dir): the directory and the store
\* directory above it
create_dir_all(parent_dir) == dirs \cup {parent_dir, ParentDir(parent_dir)}

\* the top of the loop: the iterator ends, or yields an error, or yields an
\* entry, which is read into the buffer, its path cleaned and its contents
\* hashed into the store path
ReadEntry(i) ==
  /\ pc[i] = "extract"
  /\ IF entries[i] = <<>>
     THEN /\ pc' = [pc EXCEPT ![i] = "persist"]
          /\ Logged(i, "extract", "ok")
          /\ UNCHANGED << entries, cur, outcome >>
     ELSE IF ~Head(entries[i]).ok
     THEN /\ Finish(i, "panic")
          /\ Logged(i, "extract", "archive")
          /\ UNCHANGED << entries, cur >>
     ELSE /\ cur' = [cur EXCEPT ![i] =
                       [buffer |-> Head(entries[i]).body,
                        cleaned_entry_path |-> cleaned_entry_path(Head(entries[i]).path),
                        file_path |-> file_path(Head(entries[i]).body),
                        type |-> Head(entries[i]).type]]
          /\ entries' = [entries EXCEPT ![i] = Tail(@)]
          /\ pc' = [pc EXCEPT ![i] = "check"]
          /\ UNCHANGED << outcome, log >>
  /\ UNCHANGED << args_vars, index_location, cas_file_map, cancelled, writes, prior,
                  fs_vars >>
  /\ UNCHANGED << client_vars, fn_vars >>

\* InsertEntry keeping the value a key already has (entry().or_insert)
InsertEntry_KeepFirst(i) ==
  /\ cas_file_map' = [cas_file_map EXCEPT ![i] =
                        @ @@ (cur[i].cleaned_entry_path :> cur[i].file_path)]
  /\ pc' = [pc EXCEPT ![i] = "extract"]

\* cas_file_map.insert(cleaned_entry_path, file_path), and back to the top
InsertEntry(i) ==
  /\ cas_file_map' = [cas_file_map EXCEPT ![i] =
                        (cur[i].cleaned_entry_path :> cur[i].file_path) @@ @]
  /\ pc' = [pc EXCEPT ![i] = "extract"]

\* CheckExists without the existence check: every entry is written
CheckExists_AlwaysWrite(i) ==
  /\ pc[i] = "check"
  /\ pc' = [pc EXCEPT ![i] = "create"]
  /\ UNCHANGED << args_vars, extract_vars, outcome, cancelled, log, writes, prior,
                  fs_vars >>
  /\ UNCHANGED << client_vars, fn_vars >>

\* CheckExists with the insert inside the if: an entry whose path exists is
\* skipped altogether
CheckExists_SkipWithoutInsert(i) ==
  /\ pc[i] = "check"
  /\ pc' = [pc EXCEPT ![i] = IF cur[i].file_path \in DOMAIN store
                             THEN "extract" ELSE "create"]
  /\ UNCHANGED << args_vars, extract_vars, outcome, cancelled, log, writes, prior,
                  fs_vars >>
  /\ UNCHANGED << client_vars, fn_vars >>

\* if !Path::exists(&file_path): a path that exists is inserted without a write
CheckExists(i) ==
  /\ pc[i] = "check"
  /\ IF cur[i].file_path \in DOMAIN store
     THEN InsertEntry(i)
     ELSE /\ pc' = [pc EXCEPT ![i] = "create"]
          /\ UNCHANGED cas_file_map
  /\ UNCHANGED << args_vars, index_location, entries, cur, outcome, cancelled, log,
                  writes, prior, fs_vars >>
  /\ UNCHANGED << client_vars, fn_vars >>

\* create_dir_all(parent_dir).unwrap() and File::create(&file_path).unwrap():
\* the file is created empty, or truncated if it exists by now
CreateFile(i) ==
  /\ pc[i] = "create"
  /\ dirs' = create_dir_all(ParentDir(cur[i].file_path))
  /\ store' = (cur[i].file_path :> <<>>) @@ store
  /\ writes' = [writes EXCEPT ![i] = @ \cup {cur[i].file_path}]
  /\ pc' = [pc EXCEPT ![i] = "write"]
  /\ UNCHANGED << args_vars, extract_vars, outcome, cancelled, log, prior, index_files >>
  /\ UNCHANGED << client_vars, fn_vars >>

\* create_dir_all or File::create fails: unwrap panics
CreateFileFail(i) ==
  /\ pc[i] = "create"
  /\ \E made \in BOOLEAN :
       dirs' = IF made THEN create_dir_all(ParentDir(cur[i].file_path)) ELSE dirs
  /\ Finish(i, "panic")
  /\ Logged(i, "extract", "io")
  /\ UNCHANGED << args_vars, extract_vars, cancelled, writes, prior, store, index_files >>
  /\ UNCHANGED << client_vars, fn_vars >>

\* file.write_all(&buffer) succeeds, and the entry is inserted
WriteAll(i) ==
  /\ pc[i] = "write"
  /\ store' = [store EXCEPT ![cur[i].file_path] = WriteAt0(@, cur[i].buffer)]
  /\ InsertEntry(i)
  /\ UNCHANGED << args_vars, index_location, entries, cur, outcome, cancelled, log,
                  writes, prior, index_files, dirs >>
  /\ UNCHANGED << client_vars, fn_vars >>

\* file.write_all(&buffer) fails after writing n bytes of the buffer: the
\* error is returned by extract_tarball and unwrap panics
WriteAllFail(i) ==
  /\ pc[i] = "write"
  /\ \E n \in 0..(Len(cur[i].buffer) - 1) :
       store' = [store EXCEPT ![cur[i].file_path] =
                   WriteAt0(@, SubSeq(cur[i].buffer, 1, n))]
  /\ Finish(i, "panic")
  /\ Logged(i, "extract", "io")
  /\ UNCHANGED << args_vars, extract_vars, cancelled, writes, prior, index_files, dirs >>
  /\ UNCHANGED << client_vars, fn_vars >>

\* create_dir_all(parent_dir).unwrap(), std::fs::write(dir, json) and
\* Ok(cas_file_map), which fetch_tarball returns
PersistIndex(i) ==
  /\ pc[i] = "persist"
  /\ dirs' = create_dir_all(ParentDir(index_location[i]))
  /\ index_files' = (index_location[i] :> << ToJson(cas_file_map[i]) >>) @@ index_files
  /\ writes' = [writes EXCEPT ![i] = @ \cup {index_location[i]}]
  /\ Finish(i, "Ok")
  /\ Logged(i, "persist", "ok")
  /\ UNCHANGED << args_vars, extract_vars, cancelled, prior, store >>
  /\ UNCHANGED << client_vars, fn_vars >>

\* create_dir_all or std::fs::write fails; the write may have created or
\* truncated the file before it failed
PersistIndexFail(i) ==
  /\ pc[i] = "persist"
  /\ \E truncated \in BOOLEAN :
       IF truncated
       THEN /\ dirs' = create_dir_all(ParentDir(index_location[i]))
            /\ index_files' = (index_location[i] :> <<>>) @@ index_files
            /\ writes' = [writes EXCEPT ![i] = @ \cup {index_location[i]}]
       ELSE UNCHANGED << dirs, index_files, writes >>
  /\ Finish(i, "panic")
  /\ Logged(i, "persist", "io")
  /\ UNCHANGED << args_vars, extract_vars, cancelled, prior, store >>
  /\ UNCHANGED << client_vars, fn_vars >>

(***************************************************************************)
(* Cancellation: the caller drops the future while it awaits the blocking  *)
(* task (the only await after the fetch).  A task started with             *)
(* spawn_blocking is detached, not stopped, when its JoinHandle is dropped.*)
(***************************************************************************)
BlockingPcs == {"decompress", "extract", "check", "create", "write", "persist"}

Cancel(i) ==
  /\ pc[i] \in BlockingPcs
  /\ ~cancelled[i]
  /\ cancelled' = [cancelled EXCEPT ![i] = TRUE]
  /\ UNCHANGED << pc, args_vars, extract_vars, outcome, log, writes, prior, fs_vars >>
  /\ UNCHANGED << client_vars, fn_vars >>

Next ==
  \E i \in Slots :
    \/ Call(i)
    \/ GetOrInit(i)
    \/ GetOrInitFail(i)
    \/ FetchOk(i)
    \/ FetchFail(i)
    \/ Verify(i)
    \/ Decompress(i)
    \/ ReadEntry(i)
    \/ CheckExists(i)
    \/ CreateFile(i)
    \/ CreateFileFail(i)
    \/ WriteAll(i)
    \/ WriteAllFail(i)
    \/ PersistIndex(i)
    \/ PersistIndexFail(i)
    \/ Cancel(i)

Spec == Init /\ [][Next]_vars

(***************************************************************************)
(* Vocabulary of the properties.                                           *)
(***************************************************************************)
Fetched(i) == Len(log[i]) >= 1 /\ log[i][1].result = "ok"

\* the digest computed over the fetched bytes, with the algorithm the
\* expected string selects, is not the expected string
DigestMismatch(i) ==
  /\ Fetched(i)
  /\ integrity[i] /=
       (IF StartsWith(integrity[i], "sha1")
        THEN "sha1-" \o Sha1Hex(response[i])
        ELSE Sha512Integrity(response[i]))

\* the stage an invocation is in: 0 before the call and after the end
StageOf(p) ==
  CASE p \in {"client", "fetch"} -> 1
    [] p = "verify" -> 2
    [] p = "decompress" -> 3
    [] p \in {"extract", "check", "create", "write"} -> 4
    [] p = "persist" -> 5
    [] OTHER -> 0

StagesRun(i) == { log[i][n].stage : n \in 1..Len(log[i]) }

\* the bytes at store path p are those whose digest derives p
ObjectIntact(p) == file_path(store[p]) = p

\* some invocation is between File::create and the end of write_all on p
BeingWritten(p) == \E j \in Slots : pc[j] = "write" /\ cur[j].file_path = p

(***************************************************************************)
(* C1                                                                      *)
(***************************************************************************)
\* C1: an invocation whose digest over the fetched bytes differs from the
\* expected integrity string ends in an error value, has created or written
\* no path of the store, and has started neither decompress_gzip nor
\* extract_tarball.
C1_MismatchStopsBeforeAnyWrite ==
  \A i \in Slots :
    DigestMismatch(i) =>
      /\ pc[i] \in {"verify", "done"}
      /\ pc[i] = "done" => outcome[i] = "GenericFailure"
      /\ writes[i] = {}
      /\ StagesRun(i) \subseteq {"fetch", "verify"}
      /\ entries[i] = <<>> /\ index_location[i] = ""

\* an invocation has ended on a mismatch while the store holds objects
C1_Witness ==
  \E i \in Slots :
    /\ DigestMismatch(i)
    /\ pc[i] = "done"
    /\ outcome[i] = "GenericFailure"
    /\ DOMAIN store /= {}

(***************************************************************************)
(* C2                                                                      *)
(***************************************************************************)
\* C2: the stages of an invocation run in the order fetch, verify,
\* decompress, extract+store, persist index, each at most once; a stage is
\* entered only when every stage before it has completed successfully, and
\* after a failed stage the invocation has ended with no later stage run.
C2_StagesStrictlySequential ==
  \A i \in Slots :
    /\ Len(log[i]) <= Len(Stages)
    /\ \A n \in 1..Len(log[i]) :
         /\ log[i][n].stage = Stages[n]
         /\ n < Len(log[i]) => log[i][n].result = "ok"
    /\ StageOf(pc[i]) > 0 =>
         /\ Len(log[i]) = StageOf(pc[i]) - 1
         /\ \A n \in 1..Len(log[i]) : log[i][n].result = "ok"
    /\ StageOf(pc[i]) > 2 => verify_checksum(response[i], integrity[i]).verified
    /\ StageOf(pc[i]) > 3 => decompress_gzip(response[i]).kind = "Ok"
    /\ pc[i] = "persist" => entries[i] = <<>>
    /\ pc[i] = "done" =>
         /\ Len(log[i]) >= 1
         /\ log[i][Len(log[i])].result = "ok" => Len(log[i]) = Len(Stages)
    /\ (Len(log[i]) >= 1 /\ log[i][Len(log[i])].result /= "ok") => pc[i] = "done"

\* one invocation has run all five stages and another has ended on a
\* failed decompression
C2_Witness ==
  \E i, j \in Slots :
    /\ pc[i] = "done" /\ Len(log[i]) = Len(Stages) /\ outcome[i] = "Ok"
    /\ pc[j] = "done" /\ Len(log[j]) = 3 /\ log[j][3].result = "decompress"

(***************************************************************************)
(* C3                                                                      *)
(***************************************************************************)
\* C3: no invocation is at its existence check for a store path that exists
\* while the file there lacks part of its contents and another invocation
\* is still writing it.
C3_NoPartialFileObservable ==
  \A i, j \in Slots :
    (/\ i /= j
     /\ pc[i] = "check"
     /\ pc[j] = "write"
     /\ cur[j].file_path = cur[i].file_path
     /\ cur[i].file_path \in DOMAIN store)
    => store[cur[i].file_path] = cur[i].buffer

(***************************************************************************)
(* C4                                                                      *)
(***************************************************************************)
\* C4: every content object that no invocation is in the middle of writing
\* holds the bytes whose digest derives its path, also after an invocation
\* has failed in the middle of a write; and every path in an index that an
\* invocation returned holds such an object.
C4_ObjectsMatchTheirAddress ==
  /\ \A p \in DOMAIN store : ~BeingWritten(p) => ObjectIntact(p)
  /\ \A i \in Slots :
       (pc[i] = "done" /\ outcome[i] = "Ok") =>
         \A key \in DOMAIN cas_file_map[i] :
           LET p == cas_file_map[i][key]
           IN (p \in DOMAIN store /\ ~BeingWritten(p)) => ObjectIntact(p)

(***************************************************************************)
(* C5                                                                      *)
(***************************************************************************)
\* C5: an extraction that begins after another has returned an index for
\* the same archive bytes and index location writes no content object, and
\* when it returns, it returns the same index.
C5_SecondRunSameIndexNoContentWrite ==
  \A j \in Slots :
    prior[j] /= {} =>
      /\ writes[j] \subseteq {index_location[j]}
      /\ pc[j] \notin {"create", "write"}
      /\ (pc[j] = "done" /\ outcome[j] = "Ok") =>
           \A i \in prior[j] : cas_file_map[j] = cas_file_map[i]

\* a second run has returned after a first run that wrote content objects
C5_Witness ==
  \E j \in Slots :
    /\ pc[j] = "done" /\ outcome[j] = "Ok"
    /\ \E i \in prior[j] : writes[i] \cap DOMAIN store /= {}
    /\ DOMAIN cas_file_map[j] /= {}

(***************************************************************************)
(* C6                                                                      *)
(***************************************************************************)
\* the values fetch_tarball can return as Err
ErrorValues == {"GenericFailure"}

\* C6: an invocation that has ended has returned the complete index or an
\* error value.
C6_ReturnsIndexOrOneError ==
  \A i \in Slots :
    pc[i] = "done" =>
      \/ outcome[i] = "Ok" /\ entries[i] = <<>>
      \/ outcome[i] \in ErrorValues

(***************************************************************************)
(* C7                                                                      *)
(***************************************************************************)
\* the result of the stage at which an ended invocation failed, "ok" if none
FailureOf(i) == IF log[i] = <<>> THEN "ok" ELSE log[i][Len(log[i])].result

\* C7: two invocations that failed for different kinds of reason (network,
\* integrity, decompress, archive, io) ended with different error outcomes.
C7_DistinctErrorPerStage ==
  \A i, j \in Slots :
    (/\ pc[i] = "done" /\ pc[j] = "done"
     /\ FailureOf(i) /= "ok" /\ FailureOf(j) /= "ok"
     /\ FailureOf(i) /= FailureOf(j))
    => outcome[i] /= outcome[j]

(***************************************************************************)
(* C8                                                                      *)
(***************************************************************************)
\* C8: a cancelled invocation has left no content object and no index file
\* of its own in the store.
C8_CancelledWritesNothing ==
  \A i \in Slots : cancelled[i] => writes[i] = {}

(***************************************************************************)
(* C9                                                                      *)
(***************************************************************************)
\* C9: File::create is applied only to a store path at which no file
\* exists, and so is the write of the index file.
C9_WritesOnlyCreateAbsentPaths ==
  [][ \A i \in Slots :
        /\ (pc[i] = "create" /\ pc'[i] = "write") => cur[i].file_path \notin DOMAIN store
        /\ (pc[i] = "persist" /\ index_location[i] \in DOMAIN index_files)
             => index_files' = index_files ]_vars

(***************************************************************************)
(* C10                                                                     *)
(***************************************************************************)
\* C10: when the existence check of an entry finds its store path present,
\* the invocation goes on to the next entry with no write (the store and
\* its own record of writes are unchanged) and with the entry recorded in
\* the index under its cleaned path.
C10_ExistingObjectSkippedButIndexed ==
  [][ \A i \in Slots :
        (/\ pc[i] = "check"
         /\ cur[i].file_path \in DOMAIN store
         /\ pc'[i] /= pc[i])
        => /\ pc'[i] = "extract"
           /\ store' = store
           /\ writes'[i] = writes[i]
           /\ cur[i].cleaned_entry_path \in DOMAIN cas_file_map'[i]
           /\ cas_file_map'[i][cur[i].cleaned_entry_path] = cur[i].file_path ]_vars

\* an invocation has indexed an entry under a path it did not write, and
\* the object there is the one another entry wrote
C10_Witness ==
  \E i \in Slots : \E key \in DOMAIN cas_file_map[i] :
    /\ cas_file_map[i][key] \notin writes[i]
    /\ cas_file_map[i][key] \in DOMAIN store

(***************************************************************************)
(* Direct calls of the functions: verify_checksum, decompress_gzip and     *)
(* content_path_from_hex applied to arguments drawn from bounded sets.     *)
(***************************************************************************)
\* the largest byte of a buffer passed to a direct call
MaxByte == 1

\* the largest length of a buffer passed to a direct call
MaxBufLen == 2

\* the byte buffers of length n
RECURSIVE BufsOfLen(_)
BufsOfLen(n) ==
  IF n = 0 THEN { <<>> }
  ELSE { Append(b, x) : b \in BufsOfLen(n - 1), x \in 0..MaxByte }

Bufs == UNION { BufsOfLen(n) : n \in 0..MaxBufLen }

\* the ways a caller writes the expected checksum of a buffer: the sha512
\* integrity string, the sha1 string with the hex digest (what calc_hash
\* makes), the sha1 integrity string with the base64 digest (what ssri
\* makes), and the first two in upper case
ChecksumForms == {"sha512", "sha1-hex", "sha1-base64", "SHA512", "SHA1-HEX"}

ChecksumOf(b, form) ==
  CASE form = "sha512"      -> Sha512Integrity(b)
    [] form = "sha1-hex"    -> "sha1-" \o Sha1Hex(b)
    [] form = "sha1-base64" -> "sha1-" \o Base64Encode(Sha1Digest(b))
    [] form = "SHA512"      -> ToUpper(Sha512Integrity(b))
    [] form = "SHA1-HEX"    -> ToUpper("sha1-" \o Sha1Hex(b))

\* the hex strings passed to content_path_from_hex: digests of buffers, the
\* string of the unit test, and strings of one, two and three characters
HexInputs ==
  { Sha512Hex(b) : b \in Bufs } \cup { Sha1Hex(b) : b \in Bufs }
    \cup { "1234567890abcdef1234567890abcdef12345678", "a", "ab", "abc" }

VerifyCalls ==
  { [fn |-> "verify_checksum", response |-> b, expeced_checksum |-> ChecksumOf(o, form),
     of |-> o, form |-> form] : b \in Bufs, o \in Bufs, form \in ChecksumForms }

DecompressCalls ==
  { [fn |-> "decompress_gzip", gz_data |-> b] :
      b \in Bufs \cup { Server[u] : u \in Urls } }

ContentPathCalls ==
  { [fn |-> "content_path_from_hex", file_type |-> t, hex |-> h] :
      t \in FileTypes, h \in HexInputs }

InitFn ==
  /\ InitPipeline
  /\ call \in VerifyCalls \cup DecompressCalls \cup ContentPathCalls
  /\ ret = NotReturned

ApplyVerifyChecksum ==
  /\ call.fn = "verify_checksum"
  /\ ret = NotReturned
  /\ ret' = [kind |-> "Ok",
             value |-> verify_checksum(call.response, call.expeced_checksum)]
  /\ UNCHANGED << call, pipeline_vars >>

ApplyDecompressGzip ==
  /\ call.fn = "decompress_gzip"
  /\ ret = NotReturned
  /\ ret' = decompress_gzip(call.gz_data)
  /\ UNCHANGED << call, pipeline_vars >>

\* &hex[0..2] panics on a string shorter than two characters
ApplyContentPathFromHex ==
  /\ call.fn = "content_path_from_hex"
  /\ ret = NotReturned
  /\ ret' = IF Len(call.hex) < 2
            THEN [kind |-> "Panic"]
            ELSE [kind |-> "Ok", path |-> content_path_from_hex(call.file_type, call.hex)]
  /\ UNCHANGED << call, pipeline_vars >>

NextFn ==
  \/ ApplyVerifyChecksum
  \/ ApplyDecompressGzip
  \/ ApplyContentPathFromHex

SpecFn == InitFn /\ [][NextFn]_vars

(***************************************************************************)
(* C11                                                                     *)
(***************************************************************************)
\* b and o have the same length and differ in exactly one byte
OneByteMutation(b, o) ==
  /\ Len(b) = Len(o)
  /\ Cardinality({ n \in 1..Len(b) : b[n] /= o[n] }) = 1

\* C11: verify_checksum(b, d) returns (true, None) when d is the sha512
\* integrity string of b, and (false, Some(actual)) with actual /= d, actual
\* being the sha512 integrity string of b, when d is that of a buffer that
\* differs from b in one byte.
C11_VerifyRoundTrip ==
  (call.fn = "verify_checksum" /\ ret /= NotReturned /\ call.form = "sha512") =>
    /\ call.of = call.response =>
         ret.value = [verified |-> TRUE, checksum |-> "None"]
    /\ OneByteMutation(call.response, call.of) =>
         /\ ret.value.verified = FALSE
         /\ ret.value.checksum /= "None"
         /\ ret.value.checksum /= call.expeced_checksum
         /\ ret.value.checksum = "sha512-" \o Base64Encode(Sha512Digest(call.response))

\* the call has returned for a buffer of two bytes and the digest of a
\* buffer that differs from it in the second byte
C11_Witness ==
  /\ call.fn = "verify_checksum" /\ ret /= NotReturned /\ call.form = "sha512"
  /\ Len(call.response) = 2
  /\ OneByteMutation(call.response, call.of)
  /\ call.response[2] /= call.of[2]
  /\ ~ret.value.verified

(***************************************************************************)
(* C12                                                                     *)
(***************************************************************************)
\* C12: decompress_gzip called with fewer than 4 bytes returns an error
\* value; it does not crash.
C12_ShortInputReturnsError ==
  (call.fn = "decompress_gzip" /\ ret /= NotReturned /\ Len(call.gz_data) < 4) =>
    ret.kind = "Err"

(***************************************************************************)
(* C13                                                                     *)
(***************************************************************************)
\* the suffix the layout gives each kind of object
KindSuffix(kind) ==
  IF kind = "Exec" THEN "-exec" ELSE IF kind = "Index" THEN "-index.json" ELSE ""

\* the path returned has the two components h[0..2] and h[2..] + suffix
TwoComponentPath(kind, h, path) ==
  Components(path) = << SubSeq(h, 1, 2), SubSeq(h, 3, Len(h)) \o KindSuffix(kind) >>

\* C13 as stated: for every h of at least 2 characters and every kind,
\* content_path_from_hex(kind, h) is the two-component path of directory
\* h[0..2] and file name h[2..] followed by the suffix of the kind.
C13_TwoComponentsFromLength2 ==
  (call.fn = "content_path_from_hex" /\ ret /= NotReturned /\ Len(call.hex) >= 2) =>
    /\ ret.kind = "Ok"
    /\ TwoComponentPath(call.file_type, call.hex, ret.path)

\* C13 amended: the same for every h and kind whose file name h[2..] +
\* suffix is not empty (h of at least 3 characters, or a kind with a
\* suffix); for h of exactly 2 characters and the non-executable kind the
\* result is the one-component path h.
C13_TwoComponentsWhenFileNameNotEmpty ==
  (call.fn = "content_path_from_hex" /\ ret /= NotReturned /\ Len(call.hex) >= 2) =>
    /\ ret.kind = "Ok"
    /\ IF Len(call.hex) = 2 /\ call.file_type = "NonExec"
       THEN Components(ret.path) = << call.hex >>
       ELSE TwoComponentPath(call.file_type, call.hex, ret.path)

\* the call has returned for the string of the unit test and the index kind
C13_Witness ==
  /\ call.fn = "content_path_from_hex" /\ ret /= NotReturned
  /\ call.hex = "1234567890abcdef1234567890abcdef12345678"
  /\ call.file_type = "Index"
  /\ ret.path = "12/34567890abcdef1234567890abcdef12345678-index.json"

(***************************************************************************)
(* extract_tarball called directly: every caller passes the bytes of an    *)
(* archive of the table and the index location made from their digest,     *)
(* and the calls run concurrently against one store.                       *)
(***************************************************************************)
InitExtract ==
  /\ \E a \in [Slots -> ArchiveIds] :
       \* the callers are interchangeable: they are numbered in the order of
       \* their archives
       /\ \A i, j \in Slots : i < j => a[i] <= a[j]
       /\ response = [i \in Slots |-> Gzip(a[i])]
       /\ integrity = [i \in Slots |-> Sha512Integrity(Gzip(a[i]))]
       /\ index_location = [i \in Slots |-> index_path(Sha512Integrity(Gzip(a[i])))]
       /\ entries = [i \in Slots |-> Archives[a[i]]]
  /\ pc = [i \in Slots |-> "extract"]
  /\ url = [i \in Slots |-> 1]
  /\ cur = [i \in Slots |-> NoEntry]
  /\ cas_file_map = [i \in Slots |-> EmptyMap]
  /\ outcome = [i \in Slots |-> "pending"]
  /\ cancelled = [i \in Slots |-> FALSE]
  /\ log = [i \in Slots |-> <<>>]
  /\ writes = [i \in Slots |-> {}]
  /\ prior = [i \in Slots |-> {}]
  /\ store = [p \in {} |-> <<>>]
  /\ index_files = [p \in {} |-> <<>>]
  /\ dirs = {}
  /\ CLIENT = 0
  /\ client = [i \in Slots |-> 0]
  /\ constructed = 0
  /\ call = NoCall
  /\ ret = NotReturned

NextExtract ==
  \E i \in Slots :
    \/ ReadEntry(i)
    \/ CheckExists(i)
    \/ CreateFile(i)
    \/ CreateFileFail(i)
    \/ WriteAll(i)
    \/ WriteAllFail(i)
    \/ PersistIndex(i)
    \/ PersistIndexFail(i)

SpecExtract == InitExtract /\ [][NextExtract]_vars

\* the entries of the archive invocation i extracts
ArchiveOf(i) == Archives[decompress_gzip(response[i]).data]

\* the entry of its archive that invocation i is processing
CurrentEntry(i) == ArchiveOf(i)[Len(ArchiveOf(i)) - Len(entries[i])]

\* invocation i has returned its map
Returned(i) == pc[i] = "done" /\ outcome[i] = "Ok"

(***************************************************************************)
(* C14                                                                     *)
(***************************************************************************)
\* C14: every key of the map of an invocation comes from a regular-file
\* entry of its archive, and no content object is created for an entry that
\* is not a regular file.
C14_OnlyRegularFilesIndexed ==
  \A i \in Slots :
    /\ \A key \in DOMAIN cas_file_map[i] :
         \E n \in 1..Len(ArchiveOf(i)) :
           /\ ArchiveOf(i)[n].ok
           /\ ArchiveOf(i)[n].type = "file"
           /\ Components(key) = Tail(Components(ArchiveOf(i)[n].path))
    /\ pc[i] \in {"create", "write"} => cur[i].type = "file"

(***************************************************************************)
(* C15                                                                     *)
(***************************************************************************)
\* key is path with its first component and the separator after it removed
\* (the empty key for a path of one component)
StripsTo(path, key) ==
  LET p == TrimTrailingSlash(path)
  IN \E n \in 1..Len(p) :
       /\ \A m \in 1..n : CharAt(p, m) /= "/"
       /\ \/ n = Len(p) /\ key = ""
          \/ n < Len(p) /\ CharAt(p, n + 1) = "/" /\ key = SubSeq(p, n + 2, Len(p))

\* C15: the key under which an entry is indexed is the entry's archive path
\* with exactly its first component removed: so is the key computed for the
\* entry being processed, and the keys of a returned map are exactly the
\* paths of the archive's entries so stripped.
C15_KeyIsPathWithoutFirstComponent ==
  \A i \in Slots :
    /\ pc[i] \in {"check", "create", "write"} =>
         StripsTo(CurrentEntry(i).path, cur[i].cleaned_entry_path)
    /\ Returned(i) =>
         /\ \A n \in 1..Len(ArchiveOf(i)) :
              \E key \in DOMAIN cas_file_map[i] : StripsTo(ArchiveOf(i)[n].path, key)
         /\ \A key \in DOMAIN cas_file_map[i] :
              \E n \in 1..Len(ArchiveOf(i)) : StripsTo(ArchiveOf(i)[n].path, key)

\* a returned map has the key lib/index.js for the entry root-seg/lib/index.js
C15_Witness ==
  \E i \in Slots :
    /\ Returned(i)
    /\ \E n \in 1..Len(ArchiveOf(i)) : ArchiveOf(i)[n].path = "root-seg/lib/index.js"
    /\ "lib/index.js" \in DOMAIN cas_file_map[i]

(***************************************************************************)
(* C16                                                                     *)
(***************************************************************************)
\* the last entry of the archive of invocation i whose stripped path is key
LastEntryFor(i, key) ==
  LET hits == { n \in 1..Len(ArchiveOf(i)) : StripsTo(ArchiveOf(i)[n].path, key) }
  IN ArchiveOf(i)[CHOOSE n \in hits : \A m \in hits : m <= n]

\* C16: in a returned map, the value of a key is the store path of the
\* contents of the last entry of the archive whose stripped path is the key
\* (the map being a map, it holds the key once).
C16_LastEntryWinsOnDuplicatePath ==
  \A i \in Slots :
    Returned(i) =>
      \A key \in DOMAIN cas_file_map[i] :
        cas_file_map[i][key] = file_path(LastEntryFor(i, key).body)

\* a map has been returned for an archive with two entries of the same
\* stripped path and different contents
C16_Witness ==
  \E i \in Slots :
    /\ Returned(i)
    /\ \E n, m \in 1..Len(ArchiveOf(i)) : \E key \in DOMAIN cas_file_map[i] :
         /\ n < m
         /\ StripsTo(ArchiveOf(i)[n].path, key)
         /\ StripsTo(ArchiveOf(i)[m].path, key)
         /\ ArchiveOf(i)[n].body /= ArchiveOf(i)[m].body
         /\ cas_file_map[i][key] /= file_path(ArchiveOf(i)[n].body)

(***************************************************************************)
(* C20                                                                     *)
(***************************************************************************)
\* the store path of an object of the non-executable kind with these
\* contents, as the layout gives it: <root>/<first 2 hex>/<remaining hex>
StorePathOf(body) ==
  LET hex == HexEncode(Sha512Digest(body))
  IN "pnpm-store" \o "/" \o SubSeq(hex, 1, 2) \o "/" \o SubSeq(hex, 3, Len(hex))

\* C20: every value of a returned map is the store path, below the store
\* root and of the non-executable kind, of the sha512 digest of the contents
\* of an entry indexed under its key, and a file exists at that path.
C20_ValuesAreExistingStorePaths ==
  \A i \in Slots :
    Returned(i) =>
      \A key \in DOMAIN cas_file_map[i] :
        /\ \E n \in 1..Len(ArchiveOf(i)) :
             /\ StripsTo(ArchiveOf(i)[n].path, key)
             /\ cas_file_map[i][key] = StorePathOf(ArchiveOf(i)[n].body)
        /\ cas_file_map[i][key] \in DOMAIN store

\* a map of two keys has been returned, one of its values being the path of
\* an object that another invocation created
C20_Witness ==
  \E i \in Slots :
    /\ Returned(i)
    /\ Cardinality(DOMAIN cas_file_map[i]) >= 2
    /\ \E key \in DOMAIN cas_file_map[i] :
         /\ cas_file_map[i][key] \notin writes[i]
         /\ cas_file_map[i][key] \in DOMAIN store

(***************************************************************************)
(* C17                                                                     *)
(***************************************************************************)
\* the digest string of the bytes under the algorithm the expected string
\* selects: sha1 and hex digits for a string that begins with the sha1 tag,
\* sha512 and base64 for every other string
SelectedDigestString(bytes, expected) ==
  IF Len(expected) >= 4 /\ SubSeq(expected, 1, 4) = "sha1"
  THEN "sha1-" \o HexEncode(Sha1Digest(bytes))
  ELSE "sha512-" \o Base64Encode(Sha512Digest(bytes))

\* C17: verify_checksum computes the sha1 digest string exactly when the
\* expected string carries the sha1 tag and the sha512 digest string
\* otherwise; it reports a match exactly when the computed string equals the
\* expected one byte for byte (the same digest in upper case is no match),
\* and returns the computed string when there is none.
C17_AlgorithmByTagExactMatch ==
  (call.fn = "verify_checksum" /\ ret /= NotReturned) =>
    LET computed == SelectedDigestString(call.response, call.expeced_checksum)
    IN /\ ret.value.verified = (computed = call.expeced_checksum)
       /\ ret.value.verified => ret.value.checksum = "None"
       /\ ~ret.value.verified => ret.value.checksum = computed
       /\ call.form \in {"SHA512", "SHA1-HEX"} => ~ret.value.verified
       /\ (call.form \in {"sha512", "sha1-hex"} /\ call.of = call.response) =>
            ret.value.verified

\* a call with the sha1 string of its own buffer has returned a match
C17_Witness ==
  /\ call.fn = "verify_checksum" /\ ret /= NotReturned
  /\ call.form = "sha1-hex"
  /\ call.of = call.response
  /\ Len(call.response) = 2
  /\ ret.value.verified

(***************************************************************************)
(* C18                                                                     *)
(***************************************************************************)
\* the hex digits of the digest that the verified integrity string of
\* invocation i names: the sha1 digest of the fetched bytes for a string
\* with the sha1 tag, their sha512 digest otherwise
PackageDigestHex(i) ==
  IF Len(integrity[i]) >= 4 /\ SubSeq(integrity[i], 1, 4) = "sha1"
  THEN HexEncode(Sha1Digest(response[i]))
  ELSE HexEncode(Sha512Digest(response[i]))

\* the path of the index file of a package digest, as the layout gives it:
\* <root>/<first 2 hex>/<remaining hex>-index.json
IndexPathOf(hex) ==
  "pnpm-store" \o "/" \o SubSeq(hex, 1, 2) \o "/" \o SubSeq(hex, 3, Len(hex))
    \o "-index.json"

\* the number of persist stages in the log of invocation i
PersistCount(i) == Cardinality({ n \in 1..Len(log[i]) : log[i][n].stage = "persist" })

\* C18: a successful invocation has written the index file exactly once, at
\* the index path of the package digest below the store root, after all
\* entries of the archive were processed, with the serialization of the map
\* it returns as content; an invocation that failed while processing an
\* entry has written no index file.
C18_IndexWrittenOnceAtDigestPath ==
  /\ [](\A i \in Slots :
          /\ pc[i] = "persist" => (entries[i] = <<>> /\ PersistCount(i) = 0)
          /\ (pc[i] = "done" /\ outcome[i] = "Ok") =>
               /\ PersistCount(i) = 1
               /\ index_location[i] \in writes[i]
               /\ index_location[i] = IndexPathOf(PackageDigestHex(i))
          /\ (pc[i] = "done" /\ Len(log[i]) = 4 /\ log[i][4].result /= "ok") =>
               index_location[i] \notin writes[i])
  /\ [][ \A i \in Slots :
           (pc[i] = "persist" /\ pc'[i] = "done" /\ outcome'[i] = "Ok") =>
             /\ index_files'[index_location[i]] = << ToJson(cas_file_map'[i]) >>
             /\ cas_file_map'[i] = cas_file_map[i]
             /\ \A p \in DOMAIN index_files' \ {index_location[i]} :
                  p \in DOMAIN index_files /\ index_files'[p] = index_files[p] ]_vars

(***************************************************************************)
(* C19                                                                     *)
(***************************************************************************)
\* C19: at most one Client is ever built; once the cell holds an instance
\* it holds that instance for ever; and every invocation that has passed
\* get_or_init uses the instance the cell holds.
C19_ClientBuiltOnceAndShared ==
  /\ [](/\ constructed <= 1
        /\ CLIENT /= 0 => constructed = 1
        /\ \A i \in Slots :
             /\ client[i] /= 0 => client[i] = CLIENT
             /\ pc[i] \in {"fetch", "verify"} => client[i] /= 0)
  /\ [][ CLIENT /= 0 => CLIENT' = CLIENT ]_vars

\* two invocations called before the cell was filled are both waiting for
\* their response with the one instance
C19_Witness ==
  \E i, j \in Slots :
    /\ i /= j
    /\ pc[i] = "fetch" /\ pc[j] = "fetch"
    /\ CLIENT /= 0 /\ constructed = 1
    /\ client[i] = CLIENT /\ client[j] = CLIENT

====
